---- MODULE Spec2Model ----
(***************************************************************************)
(* State machine of src/App.tsx: the sound catalog, the trigger mapping,   *)
(* the two persisted documents, and the single-slot audio player hook      *)
(* (useAudioPlayer) with its awaited native calls.                         *)
(*                                                                         *)
(* Every async function is cut at its awaits of native calls: the step     *)
(* that resolves an awaited call applies the call's native effect and runs *)
(* the JavaScript that follows it up to the next awaited native call.      *)
(* An await of an async function that returns without suspending (stop()   *)
(* with nothing loaded) only costs a microtask, which no other event can   *)
(* precede, so it is part of the same step.                                *)
(***************************************************************************)
EXTENDS Integers, Sequences, FiniteSets, Bags, TLC

\* ---------------------------------------------------------------- bounds
\* successful imports in one run (each takes a fresh Date.now())
MaxImports == 2
\* audio calls (play / stop / pause / resume) suspended at an await at once
MaxTasks == 2
\* Audio.Sound objects created in one run (each createAsync makes a new one)
MaxHandles == 2

\* ------------------------------------------------------------- constants
Null == "null"
NoHandle == 0
NoUri == <<>>
NoSound == [id |-> Null, name |-> "", uri |-> NoUri]

\* the modelled part of BUTTONS x GESTURES (the program has 3 x 3)
BUTTONS == {"b1"}
GESTURES == {"short", "long"}

triggerKey(buttonId, gesture) == buttonId \o "-" \o gesture

TRIGGERS == {triggerKey(b, g) : b \in BUTTONS, g \in GESTURES}

\* the values randomId() can return: nothing makes two calls differ
randomId == {"X", "Y"}

\* file names the picker can hand back, split at '.'; Null is a missing name
FileNames == {<<"clap", "wav">>, <<"", "m4a">>}
RenameTexts == {"voice"}

\* the status messages
MsgNone == <<>>
MsgNoMapping == <<"No sound mapped yet.">>
MsgMissing == <<"Mapped sound is missing.">>
MsgCouldNotPlay == <<"Could not play audio.">>
MsgCanceled == <<"Import canceled.">>
MsgPickerEmpty == <<"No file selected (picker returned empty).">>
MsgNotCopied == <<"Import failed: copied file not found.">>
MsgImportFailed == <<"Import failed.">>
MsgFor(prefix, name) == <<prefix, name>>

VARIABLES
    sounds,         \* App state: the catalog, a sequence of SoundItem
    mappings,       \* App state: trigger key -> sound id or Null
    lastTrigger,    \* App state
    message,        \* App state
    simulateBle,    \* App state
    isReady,        \* App state: the initial load has completed
    introDone,      \* App state: the screens are shown
    store,          \* AsyncStorage: the two persisted documents
    files,          \* FileSystem: uris of the files in the document directory
    clock,          \* number of Date.now() values used for destinations
    alerts,         \* open "Delete sound" dialogs: [id, sound] closures
    timers,         \* number of setInterval timers of the simulation effect alive
    soundRef,       \* useAudioPlayer: soundRef.current (a handle or NoHandle)
    currentId,      \* useAudioPlayer state
    playbackState,  \* useAudioPlayer state: "playing", "paused" or Null
    handles,        \* the Audio.Sound objects created so far: handle -> [st, uri]
    tasks,          \* bag of audio calls suspended at an awaited native call
    unhandled       \* an async handler rejected with nobody catching it

vars == <<sounds, mappings, lastTrigger, message, simulateBle, isReady, introDone,
          store, files, clock, alerts, timers, soundRef, currentId, playbackState,
          handles, tasks, unhandled>>

appVars == <<sounds, mappings, lastTrigger, message, simulateBle, isReady, introDone,
             store, files, clock, alerts, timers>>
audioVars == <<soundRef, currentId, playbackState, handles, tasks, unhandled>>

\* ------------------------------------------------------------ persistence
HandleIds == 1..MaxHandles
NoSuchHandle == [st |-> "none", uri |-> NoUri]
\* a created sound is loaded ("playing", "paused", "stopped", "finished") or
\* "unloaded"
Loaded(h) ==
    h \in HandleIds /\ handles[h].st \in {"playing", "paused", "stopped", "finished"}
OpenHandles == {h \in HandleIds : Loaded(h)}

\* JSON.stringify of a Mapping drops the keys whose value is undefined
stringifyMappings(m) == {<<k, m[k]>> : k \in {t \in TRIGGERS : m[t] # Null}}
parseMappings(doc) ==
    [k \in TRIGGERS |-> IF \E p \in doc : p[1] = k
                        THEN (CHOOSE p \in doc : p[1] = k)[2] ELSE Null]

\* a stored document: missing, not JSON, or a JSON text
Doc(kind, val) == [kind |-> kind, val |-> val]

loadSounds(raw) == IF raw.kind = "json" THEN raw.val ELSE <<>>
loadMappings(raw) ==
    IF raw.kind = "json" THEN parseMappings(raw.val) ELSE [k \in TRIGGERS |-> Null]

saveSounds(s) == Doc("json", s)
saveMappings(m) == Doc("json", stringifyMappings(m))

\* mutant: the effect without its `if (!isReady) return`
PersistEffect_noGuard(s, m, ready, old) ==
    [sounds |-> saveSounds(s), mappings |-> saveMappings(m)]

\* the effect on [sounds, mappings, isReady]: run after every render that changed one
PersistEffect(s, m, ready, old) ==
    IF ~ready THEN old
    ELSE [sounds |-> saveSounds(s), mappings |-> saveMappings(m)]

\* sounds an earlier run left in the store (their timestamps are in the past)
StoredClap == [id |-> "X", name |-> "clap", uri |-> <<-1, "wav">>]
StoredVoice == [id |-> "Y", name |-> "voice", uri |-> <<0, "m4a">>]

\* what the key-value store can hold when the app starts: nothing; a catalog
\* with a mapping; a mapping whose sound is not in the sounds document (the
\* two documents are written by separate setItem calls); a sounds document
\* that is not JSON
InitialStores ==
    { [sounds |-> Doc("missing", <<>>), mappings |-> Doc("missing", {})],
      [sounds |-> Doc("json", <<StoredClap, StoredVoice>>),
       mappings |-> Doc("json", {<<"b1-short", "X">>})],
      [sounds |-> Doc("json", <<StoredVoice>>),
       mappings |-> Doc("json", {<<"b1-short", "X">>})],
      [sounds |-> Doc("corrupt", <<>>), mappings |-> Doc("missing", {})] }

Init ==
    /\ sounds = <<>>
    /\ mappings = [k \in TRIGGERS |-> Null]
    /\ lastTrigger = Null
    /\ message = MsgNone
    /\ simulateBle = FALSE
    /\ isReady = FALSE
    /\ introDone = FALSE
    /\ store \in InitialStores
    /\ files = {s.uri : s \in {store.sounds.val[i] : i \in 1..Len(store.sounds.val)}}
    /\ clock = 0
    /\ alerts = {}
    /\ timers = 0
    /\ soundRef = NoHandle
    /\ currentId = Null
    /\ playbackState = Null
    /\ handles = [h \in HandleIds |-> NoSuchHandle]
    /\ tasks = EmptyBag
    /\ unhandled = FALSE

\* --------------------------------------------------- App: simulation effect
\* mutant: the effect returns no cleanup, so no interval is ever cleared
SimulationEffect_noCleanup(active, was, is) == active + (IF is THEN 1 ELSE 0)

\* the effect on [simulateBle, mappings, sounds, onTrigger], run after a render
\* that changed one of them: the cleanup of the previous run clears the
\* interval that run created (if simulateBle was set then), and the new run
\* creates one if simulateBle is set now
SimulationEffect(active, was, is) ==
    (active - (IF was THEN 1 ELSE 0)) + (IF is THEN 1 ELSE 0)

\* ------------------------------------------------------- App: load, intro
LoadEffect ==
    /\ ~isReady
    /\ sounds' = loadSounds(store.sounds)
    /\ mappings' = loadMappings(store.mappings)
    /\ isReady' = TRUE
    /\ store' = PersistEffect(sounds', mappings', isReady', store)
    /\ timers' = SimulationEffect(timers, simulateBle, simulateBle)
    /\ UNCHANGED <<lastTrigger, message, simulateBle, introDone, files, clock, alerts>>
    /\ UNCHANGED audioVars

IntroTimeout ==
    /\ ~introDone
    /\ introDone' = TRUE
    /\ UNCHANGED timers
    /\ UNCHANGED <<sounds, mappings, lastTrigger, message, simulateBle, isReady,
                   store, files, clock, alerts>>
    /\ UNCHANGED audioVars

\* user presses reach the handlers once the screens are shown; an open
\* Alert dialog is modal and takes every press until it is answered
UiFree == introDone /\ alerts = {}

\* ---------------------------------------------------------- App: catalog
RECURSIVE Join(_)
Join(parts) ==
    IF Len(parts) = 0 THEN ""
    ELSE IF Len(parts) = 1 THEN parts[1]
    ELSE parts[1] \o "." \o Join(Tail(parts))

\* file.name.replace(/\.[^/.]+$/, ''): drops a last non-empty ".ext"
stripExtension(parts) ==
    IF Len(parts) >= 2 /\ parts[Len(parts)] # ""
    THEN Join(SubSeq(parts, 1, Len(parts) - 1))
    ELSE Join(parts)

derivedName(parts) ==
    IF stripExtension(parts) = "" THEN "New sound" ELSE stripExtension(parts)

\* file.name.split('.').pop()
extensionOf(parts) == parts[Len(parts)]

destinationOf(now, parts) == <<now, extensionOf(parts)>>

ImportOutcomes == {"canceled", "empty", "copyThrows", "notFound", "ok"}

\* mutant: the sound is appended before the copied file is checked
handleImport_appendsBeforeCheck(outcome, fileName, id) ==
    /\ UiFree
    /\ outcome \in ImportOutcomes
    /\ IF outcome \in {"ok", "notFound"}
       THEN /\ clock < MaxImports
            /\ clock' = clock + 1
            /\ files' = IF outcome = "ok"
                         THEN files \cup {destinationOf(clock', fileName)} ELSE files
            /\ sounds' = Append(sounds, [id |-> id, name |-> derivedName(fileName),
                                         uri |-> destinationOf(clock', fileName)])
            /\ message' = IF outcome = "ok"
                           THEN MsgFor("Imported", derivedName(fileName)) ELSE MsgNotCopied
       ELSE /\ message' = CASE outcome = "canceled" -> MsgCanceled
                            [] outcome = "empty" -> MsgPickerEmpty
                            [] OTHER -> MsgImportFailed
            /\ UNCHANGED <<sounds, files, clock>>
    /\ store' = PersistEffect(sounds', mappings, isReady, store)
    /\ timers' = SimulationEffect(timers, simulateBle, simulateBle)
    /\ UNCHANGED <<mappings, lastTrigger, simulateBle, isReady, introDone, alerts>>
    /\ UNCHANGED <<soundRef, currentId, playbackState, handles, tasks, unhandled>>

handleImport(outcome, fileName, id) ==
    /\ UiFree
    /\ outcome \in ImportOutcomes
    /\ IF outcome = "ok"
       THEN /\ clock < MaxImports
            /\ clock' = clock + 1
            /\ files' = files \cup {destinationOf(clock', fileName)}
            /\ sounds' = Append(sounds, [id |-> id, name |-> derivedName(fileName),
                                         uri |-> destinationOf(clock', fileName)])
            /\ message' = MsgFor("Imported", derivedName(fileName))
       ELSE /\ message' = CASE outcome = "canceled" -> MsgCanceled
                            [] outcome = "empty" -> MsgPickerEmpty
                            [] outcome = "notFound" -> MsgNotCopied
                            [] OTHER -> MsgImportFailed
            /\ UNCHANGED <<sounds, files, clock>>
    /\ store' = PersistEffect(sounds', mappings, isReady, store)
    /\ timers' = SimulationEffect(timers, simulateBle, simulateBle)
    /\ UNCHANGED <<mappings, lastTrigger, simulateBle, isReady, introDone, alerts>>
    /\ UNCHANGED audioVars

renameIn(s, id, name) ==
    [i \in 1..Len(s) |-> IF s[i].id = id THEN [s[i] EXCEPT !.name = name] ELSE s[i]]

handleRename(id, name) ==
    /\ UiFree
    /\ sounds' = renameIn(sounds, id, name)
    /\ store' = PersistEffect(sounds', mappings, isReady, store)
    /\ timers' = SimulationEffect(timers, simulateBle, simulateBle)
    /\ UNCHANGED <<mappings, lastTrigger, message, simulateBle, isReady, introDone,
                   files, clock, alerts>>
    /\ UNCHANGED audioVars

\* sounds.find((s) => s.id === id): the first entry with the id, or NoSound
RECURSIVE findSound(_, _)
findSound(s, id) ==
    IF Len(s) = 0 THEN NoSound
    ELSE IF Head(s).id = id THEN Head(s)
    ELSE findSound(Tail(s), id)

RECURSIVE filterOut(_, _)
filterOut(s, id) ==
    IF Len(s) = 0 THEN <<>>
    ELSE IF Head(s).id = id THEN filterOut(Tail(s), id)
    ELSE <<Head(s)>> \o filterOut(Tail(s), id)

\* mutant: the delete clears every mapping entry
removeMappingsTo_clearsAll(m, id) == [k \in DOMAIN m |-> Null]

\* mutant: the delete leaves the mapping as it is
removeMappingsTo_keeps(m, id) == m

removeMappingsTo(m, id) == [k \in DOMAIN m |-> IF m[k] = id THEN Null ELSE m[k]]

\* handleDelete up to Alert.alert: the dialog's closure keeps id and sound
handleDelete(id) ==
    /\ UiFree
    /\ alerts' = alerts \cup {[id |-> id, sound |-> findSound(sounds, id)]}
    /\ UNCHANGED timers
    /\ UNCHANGED <<sounds, mappings, lastTrigger, message, simulateBle, isReady,
                   introDone, store, files, clock>>
    /\ UNCHANGED audioVars

\* mutant: the delete clears the playback pointer of the deleted sound
DeleteConfirm_clearsPointer(a) ==
    /\ a \in alerts
    /\ alerts' = alerts \ {a}
    /\ sounds' = filterOut(sounds, a.id)
    /\ mappings' = removeMappingsTo(mappings, a.id)
    /\ files' = IF a.sound # NoSound THEN files \ {a.sound.uri} ELSE files
    /\ store' = PersistEffect(sounds', mappings', isReady, store)
    /\ timers' = SimulationEffect(timers, simulateBle, simulateBle)
    /\ currentId' = IF currentId = a.id THEN Null ELSE currentId
    /\ playbackState' = IF currentId = a.id THEN Null ELSE playbackState
    /\ UNCHANGED <<lastTrigger, message, simulateBle, isReady, introDone, clock>>
    /\ UNCHANGED <<soundRef, handles, tasks, unhandled>>

\* the dialog's 'Delete' button
DeleteConfirm(a) ==
    /\ a \in alerts
    /\ alerts' = alerts \ {a}
    /\ sounds' = filterOut(sounds, a.id)
    /\ mappings' = removeMappingsTo(mappings, a.id)
    /\ files' = IF a.sound # NoSound THEN files \ {a.sound.uri} ELSE files
    /\ store' = PersistEffect(sounds', mappings', isReady, store)
    /\ timers' = SimulationEffect(timers, simulateBle, simulateBle)
    /\ UNCHANGED <<lastTrigger, message, simulateBle, isReady, introDone, clock>>
    /\ UNCHANGED audioVars

\* the dialog's 'Cancel' button
DeleteCancel(a) ==
    /\ a \in alerts
    /\ alerts' = alerts \ {a}
    /\ UNCHANGED timers
    /\ UNCHANGED <<sounds, mappings, lastTrigger, message, simulateBle, isReady,
                   introDone, store, files, clock>>
    /\ UNCHANGED audioVars

catalogIds == {sounds[i].id : i \in 1..Len(sounds)}
catalogSounds == {sounds[i] : i \in 1..Len(sounds)}

handleSetMapping(key, soundId) ==
    /\ UiFree
    /\ mappings' = [mappings EXCEPT ![key] = soundId]
    /\ store' = PersistEffect(sounds, mappings', isReady, store)
    /\ timers' = SimulationEffect(timers, simulateBle, simulateBle)
    /\ UNCHANGED <<sounds, lastTrigger, message, simulateBle, isReady, introDone,
                   files, clock, alerts>>
    /\ UNCHANGED audioVars

\* MappingScreen: the choices are the catalog's sounds and 'Clear mapping',
\* and are shown only for a catalog that is not empty
MappingChoice(key, soundId) ==
    /\ Len(sounds) > 0
    /\ soundId \in catalogIds \cup {Null}
    /\ handleSetMapping(key, soundId)

toggleSimulate(value) ==
    /\ UiFree
    /\ simulateBle' = value
    /\ timers' = SimulationEffect(timers, simulateBle, value)
    /\ UNCHANGED <<sounds, mappings, lastTrigger, message, isReady, introDone,
                   store, files, clock, alerts>>
    /\ UNCHANGED audioVars

\* ------------------------------------------------------- useAudioPlayer
Task(kind, pc, h, sound) == [kind |-> kind, pc |-> pc, h |-> h, sound |-> sound]
Suspend(t) == tasks (+) SetToBag({t})
Resume(t) == tasks (-) SetToBag({t})
InFlight == BagToSet(tasks)
CanSuspend == BagCardinality(tasks) < MaxTasks

\* mutant: the callback does not look at didJustFinish
onPlaybackStatusUpdate_ignoresFinish(ptr, isLoaded, isPlaying, didJustFinish) ==
    IF ~isLoaded THEN ptr
    ELSE [id |-> ptr.id, st |-> IF isPlaying THEN "playing" ELSE "paused"]

\* the callback play() installs with setOnPlaybackStatusUpdate, as a function
\* of the pointer [id, st] it finds
onPlaybackStatusUpdate(ptr, isLoaded, isPlaying, didJustFinish) ==
    IF ~isLoaded THEN ptr
    ELSE IF didJustFinish THEN [id |-> Null, st |-> Null]
    ELSE [id |-> ptr.id, st |-> IF isPlaying THEN "playing" ELSE "paused"]

Pointer == [id |-> currentId, st |-> playbackState]

\* mutant: play() does not await stop() before it loads
stopEntry_noRelease(kind, sound) ==
    IF kind = "play"
    THEN /\ CanSuspend
         /\ tasks' = Suspend(Task(kind, "createAsync", NoHandle, sound))
    ELSE tasks' = tasks

\* stop() up to its first await, called by `kind` ("stop": onTrigger, "play":
\* play); a play with nothing loaded goes on to Audio.Sound.createAsync
stopEntry(kind, sound) ==
    IF soundRef # NoHandle
    THEN /\ CanSuspend
         /\ tasks' = Suspend(Task(kind, "stopAsync", soundRef, sound))
    ELSE IF kind = "play"
    THEN /\ CanSuspend
         /\ tasks' = Suspend(Task(kind, "createAsync", NoHandle, sound))
    ELSE tasks' = tasks

\* audio.play(sound), from the call to its first awaited native call
play(sound) ==
    /\ stopEntry("play", sound)
    /\ UNCHANGED <<soundRef, currentId, playbackState, handles, unhandled>>

\* soundRef.current.stopAsync() resolves or rejects (rejection ignored), then
\* soundRef.current is read again for unloadAsync()
StopAsyncSettles(t) ==
    /\ t \in InFlight /\ t.pc = "stopAsync"
    /\ handles' = IF Loaded(t.h) THEN [handles EXCEPT ![t.h].st = "stopped"] ELSE handles
    /\ playbackState' = onPlaybackStatusUpdate(Pointer, Loaded(t.h), FALSE, FALSE).st
    /\ IF soundRef = NoHandle
       THEN \* TypeError: soundRef.current is null
            /\ tasks' = Resume(t)
            /\ message' = IF t.kind = "play" THEN MsgCouldNotPlay ELSE message
            /\ unhandled' = (unhandled \/ t.kind = "stop")
       ELSE /\ tasks' = Suspend(Task(t.kind, "unloadAsync", soundRef, t.sound)) (-) SetToBag({t})
            /\ UNCHANGED <<message, unhandled>>
    /\ UNCHANGED <<soundRef, currentId>>
    /\ UNCHANGED timers
    /\ UNCHANGED <<sounds, mappings, lastTrigger, simulateBle, isReady, introDone,
                   store, files, clock, alerts>>

\* unloadAsync() resolves; stop() clears the ref and the pointer; a play goes
\* on to Audio.Sound.createAsync
UnloadSettles(t) ==
    /\ t \in InFlight /\ t.pc = "unloadAsync"
    /\ handles' = [handles EXCEPT ![t.h].st = "unloaded"]
    /\ soundRef' = NoHandle
    /\ currentId' = Null
    /\ playbackState' = Null
    /\ tasks' = IF t.kind = "play"
                THEN Suspend(Task("play", "createAsync", NoHandle, t.sound)) (-) SetToBag({t})
                ELSE Resume(t)
    /\ UNCHANGED unhandled
    /\ UNCHANGED appVars

\* the sound objects not created yet
FreeHandles == {h \in HandleIds : handles[h].st = "none"}
NewHandle == CHOOSE h \in FreeHandles : \A g \in FreeHandles : h <= g

\* Audio.Sound.createAsync({uri}, {shouldPlay: true}) resolves with a loaded,
\* playing sound, or rejects (caught by every caller of play)
CreateSettles(t, ok) ==
    /\ t \in InFlight /\ t.pc = "createAsync"
    /\ tasks' = Resume(t)
    /\ IF ok
       THEN /\ t.sound.uri \in files
            /\ FreeHandles # {}
            /\ handles' = [handles EXCEPT ![NewHandle] = [st |-> "playing", uri |-> t.sound.uri]]
            /\ soundRef' = NewHandle
            /\ currentId' = t.sound.id
            /\ playbackState' = "playing"
            /\ UNCHANGED message
       ELSE /\ message' = MsgCouldNotPlay
            /\ UNCHANGED <<handles, soundRef, currentId, playbackState>>
    /\ UNCHANGED unhandled
    /\ UNCHANGED timers
    /\ UNCHANGED <<sounds, mappings, lastTrigger, simulateBle, isReady, introDone,
                   store, files, clock, alerts>>

\* mutant: pause() / resume() without the `if (!soundRef.current) return`
pauseEntry_noGuard(kind) ==
    /\ CanSuspend
    /\ tasks' = Suspend(Task(kind, IF kind = "pause" THEN "pauseAsync" ELSE "playAsync",
                             soundRef, NoSound))
    /\ UNCHANGED <<soundRef, currentId, playbackState, handles, unhandled>>

\* pause() / resume() up to the awaited pauseAsync() / playAsync()
pauseEntry(kind) ==
    /\ IF soundRef = NoHandle
       THEN tasks' = tasks
       ELSE /\ CanSuspend
            /\ tasks' = Suspend(Task(kind, IF kind = "pause" THEN "pauseAsync" ELSE "playAsync",
                                     soundRef, NoSound))
    /\ UNCHANGED <<soundRef, currentId, playbackState, handles, unhandled>>

pause == pauseEntry("pause")
resume == pauseEntry("resume")

\* pauseAsync() resolves (the sound is loaded) or rejects (ignored)
PauseSettles(t) ==
    /\ t \in InFlight /\ t.pc = "pauseAsync"
    /\ tasks' = Resume(t)
    /\ IF Loaded(t.h)
       THEN /\ handles' = [handles EXCEPT ![t.h].st =
                              IF @ = "playing" THEN "paused" ELSE @]
            /\ playbackState' = "paused"
       ELSE UNCHANGED <<handles, playbackState>>
    /\ UNCHANGED <<soundRef, currentId, unhandled>>
    /\ UNCHANGED appVars

\* playAsync() resolves (the sound is loaded) or rejects (ignored)
ResumeSettles(t) ==
    /\ t \in InFlight /\ t.pc = "playAsync"
    /\ tasks' = Resume(t)
    /\ IF Loaded(t.h)
       THEN /\ handles' = [handles EXCEPT ![t.h].st = "playing"]
            /\ playbackState' = "playing"
       ELSE UNCHANGED <<handles, playbackState>>
    /\ UNCHANGED <<soundRef, currentId, unhandled>>
    /\ UNCHANGED appVars

\* native side: a playing sound reaches its end; the callback gets
\* {isLoaded, isPlaying: false, didJustFinish: true}
PlaybackFinishes(h) ==
    /\ Loaded(h) /\ handles[h].st = "playing"
    /\ handles' = [handles EXCEPT ![h].st = "finished"]
    /\ currentId' = onPlaybackStatusUpdate(Pointer, TRUE, FALSE, TRUE).id
    /\ playbackState' = onPlaybackStatusUpdate(Pointer, TRUE, FALSE, TRUE).st
    /\ UNCHANGED <<soundRef, tasks, unhandled>>
    /\ UNCHANGED appVars

\* native side: the periodic progress update of a playing sound
ProgressUpdate(h) ==
    /\ Loaded(h) /\ handles[h].st = "playing"
    /\ currentId' = onPlaybackStatusUpdate(Pointer, TRUE, TRUE, FALSE).id
    /\ playbackState' = onPlaybackStatusUpdate(Pointer, TRUE, TRUE, FALSE).st
    /\ UNCHANGED <<soundRef, handles, tasks, unhandled>>
    /\ UNCHANGED appVars

\* --------------------------------------------------- App: triggers, play
\* onTrigger, no mapping: the message, then `await audio.stop()`
triggerUnmapped ==
    /\ message' = MsgNoMapping
    /\ stopEntry("stop", NoSound)

\* mutant: a missing sound stops the player like a missing mapping does
triggerMissing_stops ==
    /\ message' = MsgMissing
    /\ stopEntry("stop", NoSound)

\* onTrigger, the mapped id is not in the catalog: the message, then return
triggerMissing ==
    /\ message' = MsgMissing
    /\ tasks' = tasks

\* mutant: the message does not tell a timer tick from a press
triggerMapped_alwaysPlaying(sound, isAuto) ==
    /\ message' = MsgFor("Playing", sound.name)
    /\ stopEntry("play", sound)

\* onTrigger, the mapped sound is found: the message, then `await audio.play(sound)`
triggerMapped(sound, isAuto) ==
    /\ message' = MsgFor(IF isAuto THEN "Simulated" ELSE "Playing", sound.name)
    /\ stopEntry("play", sound)

onTrigger(key, isAuto) ==
    /\ lastTrigger' = key
    /\ IF mappings[key] = Null THEN triggerUnmapped
       ELSE IF findSound(sounds, mappings[key]) = NoSound THEN triggerMissing
       ELSE triggerMapped(findSound(sounds, mappings[key]), isAuto)
    /\ UNCHANGED <<soundRef, currentId, playbackState, handles, unhandled>>
    /\ UNCHANGED timers
    /\ UNCHANGED <<sounds, mappings, simulateBle, isReady, introDone, store, files,
                   clock, alerts>>

\* TestScreen: a virtual button is pressed
TriggerPressed(key) == UiFree /\ onTrigger(key, FALSE)

\* an interval of the simulation effect fires: it draws a trigger and calls
\* onTrigger(trigger, true)
SimulationTick(key) == timers > 0 /\ onTrigger(key, TRUE)

\* LibraryScreen ("Preview") and ActionsScreen ("Playing"): onPlay
onPlay(sound, prefix) ==
    /\ UiFree
    /\ message' = MsgFor(prefix, sound.name)
    /\ play(sound)
    /\ UNCHANGED timers
    /\ UNCHANGED <<sounds, mappings, lastTrigger, simulateBle, isReady, introDone,
                   store, files, clock, alerts>>

onPause ==
    /\ UiFree
    /\ pause
    /\ UNCHANGED appVars

onResume ==
    /\ UiFree
    /\ resume
    /\ UNCHANGED appVars

\* LibraryScreen / ActionsScreen: the Pause / Resume button of a sound's row,
\* enabled while the pointer names that sound; it resumes a paused sound and
\* pauses otherwise
PauseResumeButton(sound) ==
    /\ UiFree
    /\ currentId = sound.id
    /\ playbackState # Null
    /\ IF playbackState = "paused" THEN resume ELSE pause
    /\ UNCHANGED appVars

Next ==
    \/ LoadEffect
    \/ IntroTimeout
    \/ \E o \in ImportOutcomes, f \in FileNames, id \in randomId : handleImport(o, f, id)
    \/ \E id \in catalogIds, n \in RenameTexts : handleRename(id, n)
    \/ \E id \in catalogIds : handleDelete(id)
    \/ \E a \in alerts : DeleteConfirm(a)
    \/ \E a \in alerts : DeleteCancel(a)
    \/ \E k \in TRIGGERS, id \in randomId \cup {Null} : MappingChoice(k, id)
    \/ \E v \in BOOLEAN : toggleSimulate(v)
    \/ \E k \in TRIGGERS : TriggerPressed(k)
    \/ \E k \in TRIGGERS : SimulationTick(k)
    \/ \E s \in catalogSounds, p \in {"Preview", "Playing"} : onPlay(s, p)
    \/ onPause
    \/ onResume
    \/ \E t \in InFlight : StopAsyncSettles(t)
    \/ \E t \in InFlight : UnloadSettles(t)
    \/ \E t \in InFlight, ok \in BOOLEAN : CreateSettles(t, ok)
    \/ \E t \in InFlight : PauseSettles(t)
    \/ \E t \in InFlight : ResumeSettles(t)
    \/ \E h \in HandleIds : PlaybackFinishes(h)
    \/ \E h \in HandleIds : ProgressUpdate(h)

Spec == Init /\ [][Next]_vars

\* the app with a catalog that is not edited: triggers and the audio player
AudioNext ==
    \/ LoadEffect
    \/ IntroTimeout
    \/ \E v \in BOOLEAN : toggleSimulate(v)
    \/ \E k \in TRIGGERS : TriggerPressed(k)
    \/ \E k \in TRIGGERS : SimulationTick(k)
    \/ \E s \in catalogSounds, p \in {"Preview", "Playing"} : onPlay(s, p)
    \/ onPause
    \/ onResume
    \/ \E t \in InFlight : StopAsyncSettles(t)
    \/ \E t \in InFlight : UnloadSettles(t)
    \/ \E t \in InFlight, ok \in BOOLEAN : CreateSettles(t, ok)
    \/ \E t \in InFlight : PauseSettles(t)
    \/ \E t \in InFlight : ResumeSettles(t)
    \/ \E h \in HandleIds : PlaybackFinishes(h)
    \/ \E h \in HandleIds : ProgressUpdate(h)

AudioSpec == Init /\ [][AudioNext]_vars

\* the catalog and the mapping edited with no audio call made
DataNext ==
    \/ LoadEffect
    \/ IntroTimeout
    \/ \E o \in ImportOutcomes, f \in FileNames, id \in randomId : handleImport(o, f, id)
    \/ \E id \in catalogIds, n \in RenameTexts : handleRename(id, n)
    \/ \E id \in catalogIds : handleDelete(id)
    \/ \E a \in alerts : DeleteConfirm(a)
    \/ \E a \in alerts : DeleteCancel(a)
    \/ \E k \in TRIGGERS, id \in randomId \cup {Null} : MappingChoice(k, id)

DataSpec == Init /\ [][DataNext]_vars

\* the human-paced use of the player: a press or a tick comes only when no
\* audio call is suspended
Quiet == tasks = EmptyBag

SeqNext ==
    \/ LoadEffect
    \/ IntroTimeout
    \/ \E v \in BOOLEAN : toggleSimulate(v)
    \/ \E k \in TRIGGERS : Quiet /\ TriggerPressed(k)
    \/ \E k \in TRIGGERS : Quiet /\ SimulationTick(k)
    \/ \E s \in catalogSounds, p \in {"Preview", "Playing"} : Quiet /\ onPlay(s, p)
    \/ Quiet /\ onPause
    \/ Quiet /\ onResume
    \/ \E t \in InFlight : StopAsyncSettles(t)
    \/ \E t \in InFlight : UnloadSettles(t)
    \/ \E t \in InFlight, ok \in BOOLEAN : CreateSettles(t, ok)
    \/ \E t \in InFlight : PauseSettles(t)
    \/ \E t \in InFlight : ResumeSettles(t)
    \/ \E h \in HandleIds : PlaybackFinishes(h)
    \/ \E h \in HandleIds : ProgressUpdate(h)

SeqSpec == Init /\ [][SeqNext]_vars

\* a first run: nothing is stored
InitEmpty ==
    /\ Init
    /\ store = [sounds |-> Doc("missing", <<>>), mappings |-> Doc("missing", {})]

EmptySpec == InitEmpty /\ [][DataNext]_vars

\* the library screens used at human pace: sounds are played, paused and
\* resumed with the rows' buttons, deleted and mapped, the simulation is
\* toggled, and a press or a tick comes only when no audio call is suspended
LibraryNext ==
    \/ LoadEffect
    \/ IntroTimeout
    \/ \E id \in catalogIds : handleDelete(id)
    \/ \E a \in alerts : DeleteConfirm(a)
    \/ \E a \in alerts : DeleteCancel(a)
    \/ \E k \in TRIGGERS, id \in randomId \cup {Null} : MappingChoice(k, id)
    \/ \E v \in BOOLEAN : toggleSimulate(v)
    \/ \E k \in TRIGGERS : Quiet /\ SimulationTick(k)
    \/ \E s \in catalogSounds : Quiet /\ onPlay(s, "Preview")
    \/ \E s \in catalogSounds : Quiet /\ PauseResumeButton(s)
    \/ \E t \in InFlight : StopAsyncSettles(t)
    \/ \E t \in InFlight : UnloadSettles(t)
    \/ \E t \in InFlight, ok \in BOOLEAN : CreateSettles(t, ok)
    \/ \E t \in InFlight : PauseSettles(t)
    \/ \E t \in InFlight : ResumeSettles(t)
    \/ \E h \in HandleIds : PlaybackFinishes(h)
    \/ \E h \in HandleIds : ProgressUpdate(h)

LibrarySpec == Init /\ [][LibraryNext]_vars

\* ================================================================ claims

\* C1: in every reachable state, whatever the interleaving of play, stop,
\* pause, resume and fireTrigger calls, at most one native audio handle is
\* loaded.
C1_AtMostOneHandle == Cardinality(OpenHandles) <= 1

\* C2: a confirmed deleteSound(id) clears exactly the mapping entries that
\* held id, removes exactly the catalog entries with that id (the others keep
\* their order), and applying the same removal again changes nothing.
C2_DeleteFrame ==
    [][\A a \in alerts : DeleteConfirm(a) =>
          /\ \A k \in TRIGGERS :
                /\ mappings[k] = a.id => mappings'[k] = Null
                /\ mappings[k] # a.id => mappings'[k] = mappings[k]
          /\ sounds' = SelectSeq(sounds, LAMBDA x : x.id # a.id)
          /\ removeMappingsTo(mappings', a.id) = mappings'
          /\ filterOut(sounds', a.id) = sounds']_vars

\* C2 witness: the stored catalog after "clap" (id X, mapped to b1-short) was
\* deleted while b1-long stays mapped to "voice"
C2_Witness ==
    /\ isReady
    /\ sounds = <<StoredVoice>>
    /\ StoredClap.uri \notin files
    /\ mappings["b1-short"] = Null
    /\ mappings["b1-long"] = "Y"

\* C3: started with nothing stored, and with the mapping only ever set from
\* the catalog's own choices, every mapped value is the id of a sound in the
\* catalog, whatever imports, renames and deletes happen.
C3_NoDanglingMapping ==
    \A k \in TRIGGERS : mappings[k] # Null => mappings[k] \in catalogIds

\* C3 witness: two imports, one of them deleted since (its file is gone), and
\* a trigger still mapped
C3_Witness ==
    /\ clock = 2
    /\ Len(sounds) = 1
    /\ Cardinality(files) = 1
    /\ alerts = {}
    /\ \E k \in TRIGGERS : mappings[k] # Null

\* C4: a trigger with no mapping sets "No sound mapped yet.", asks the player
\* to stop the current handle, and once that has completed (at once when
\* nothing is referenced, else when the unload settles) the playback pointer
\* is empty.
C4_UnmappedTriggerSilences ==
    [][/\ \A k \in TRIGGERS :
            (TriggerPressed(k) \/ SimulationTick(k)) /\ mappings[k] = Null =>
                /\ message' = MsgNoMapping
                /\ IF soundRef = NoHandle
                   THEN currentId' = Null /\ playbackState' = Null
                   ELSE \E t \in BagToSet(tasks') :
                            t.kind = "stop" /\ t.pc = "stopAsync" /\ t.h = soundRef
       /\ \A t \in InFlight :
            t.kind = "stop" /\ UnloadSettles(t) =>
                currentId' = Null /\ playbackState' = Null]_vars

\* C5: a trigger whose mapped id is not in the catalog sets "Mapped sound is
\* missing." and leaves the pointer, the ref, the sound objects and the
\* suspended calls as they were.
C5_MissingSoundFrame ==
    [][\A k \in TRIGGERS :
          /\ (TriggerPressed(k) \/ SimulationTick(k))
          /\ mappings[k] # Null
          /\ mappings[k] \notin catalogIds
          => /\ message' = MsgMissing
             /\ UNCHANGED <<currentId, playbackState, soundRef, handles, tasks>>]_vars

\* C5 witness: "voice" is playing and a trigger mapped to the missing id X
\* has reported it
C5_Witness ==
    /\ message = MsgMissing
    /\ lastTrigger = "b1-short"
    /\ mappings["b1-short"] \notin catalogIds \cup {Null}
    /\ currentId = "Y"
    /\ playbackState = "playing"
    /\ Loaded(soundRef)

\* C6: a trigger mapped to a catalog sound sets "Simulated: <name>" for a
\* timer tick and "Playing: <name>" for a press and asks for that sound to be
\* played; when the load succeeds the pointer is {its id, playing} on a sound
\* object of its uri; and the stop of a following unmapped trigger clears it.
C6_MappedTriggerPlays ==
    [][/\ \A k \in TRIGGERS, auto \in BOOLEAN :
            /\ IF auto THEN SimulationTick(k) ELSE TriggerPressed(k)
            /\ mappings[k] \in catalogIds
            => LET snd == CHOOSE x \in catalogSounds : x.id = mappings[k]
               IN /\ message' = <<IF auto THEN "Simulated" ELSE "Playing", snd.name>>
                  /\ \E t \in BagToSet(tasks') : t.kind = "play" /\ t.sound = snd
       /\ \A t \in InFlight :
            CreateSettles(t, TRUE) =>
                /\ currentId' = t.sound.id
                /\ playbackState' = "playing"
                /\ handles'[soundRef'] = [st |-> "playing", uri |-> t.sound.uri]
       /\ \A t \in InFlight :
            t.kind = "stop" /\ UnloadSettles(t) =>
                currentId' = Null /\ playbackState' = Null]_vars

\* C6 witness: b1-short, mapped to "clap", was pressed and "clap" plays
C6_Witness ==
    /\ message = <<"Playing", "clap">>
    /\ lastTrigger = "b1-short"
    /\ mappings["b1-short"] = "X"
    /\ currentId = "X"
    /\ playbackState = "playing"
    /\ handles[soundRef] = [st |-> "playing", uri |-> StoredClap.uri]

\* C7: with the audio calls made one after the other, two sound objects are
\* never loaded at once, and when a load-and-play succeeds the one loaded
\* object is the new one, of the new uri, and the pointer holds the new id.
C7_LoadThenLoad ==
    /\ [](Cardinality(OpenHandles) <= 1)
    /\ [][\A t \in InFlight :
             CreateSettles(t, TRUE) =>
                 /\ OpenHandles' = {soundRef'}
                 /\ handles'[soundRef'].uri = t.sound.uri
                 /\ currentId' = t.sound.id]_vars

\* C7 witness: the first sound object was unloaded and a second one, of
\* another uri, is the only one loaded
C7_Witness ==
    /\ handles[1].st = "unloaded"
    /\ handles[2].st = "playing"
    /\ handles[1].uri # handles[2].uri
    /\ soundRef = 2
    /\ currentId = "Y"

\* C8: when the sound the player references reaches its end, the completion
\* notification leaves the current id and the status both empty.
C8_FinishClearsPointer ==
    [][\A h \in HandleIds :
          PlaybackFinishes(h) /\ h = soundRef =>
              currentId' = Null /\ playbackState' = Null]_vars

\* C8 witness: the referenced sound has finished and the pointer is empty
C8_Witness ==
    /\ soundRef # NoHandle
    /\ handles[soundRef].st = "finished"
    /\ currentId = Null
    /\ playbackState = Null

\* C9: when stop() completes no sound object is loaded and the pointer is
\* empty; stop() with nothing referenced changes nothing in the player.
C9_StopReleases ==
    [][/\ \A t \in InFlight :
            UnloadSettles(t) =>
                OpenHandles' = {} /\ currentId' = Null /\ playbackState' = Null
       /\ \A k \in TRIGGERS :
            /\ (TriggerPressed(k) \/ SimulationTick(k))
            /\ mappings[k] = Null
            /\ soundRef = NoHandle
            => UNCHANGED audioVars]_vars

\* C10: pause() and resume() with nothing referenced change nothing in the
\* player; otherwise the call and its settling leave the ref, the current id
\* and the set of loaded sound objects alone, raise nothing, and change the
\* status only to "paused" (pause) or "playing" (resume).
C10_PauseResumeFrame ==
    [][/\ (onPause \/ onResume) =>
            /\ UNCHANGED <<soundRef, currentId, playbackState, handles, unhandled>>
            /\ soundRef = NoHandle => tasks' = tasks
       /\ \A t \in InFlight :
            PauseSettles(t) =>
                /\ UNCHANGED <<soundRef, currentId, unhandled>>
                /\ OpenHandles' = OpenHandles
                /\ playbackState' \in {playbackState, "paused"}
                /\ Loaded(t.h) => playbackState' = "paused"
       /\ \A t \in InFlight :
            ResumeSettles(t) =>
                /\ UNCHANGED <<soundRef, currentId, unhandled>>
                /\ OpenHandles' = OpenHandles
                /\ playbackState' \in {playbackState, "playing"}
                /\ Loaded(t.h) => playbackState' = "playing"]_vars

\* C10 witness: a playing sound was paused: the status is paused, the id kept
C10_Witness ==
    /\ soundRef # NoHandle
    /\ handles[soundRef].st = "paused"
    /\ playbackState = "paused"
    /\ currentId # Null

\* C11: every successful importSound, every renameSound, confirmed deleteSound
\* and setMapping, whenever in the run it happens, leaves both persisted
\* documents rewritten with the whole catalog and the whole mapping as they
\* are after it.
C11_RewriteAfterMutation ==
    [][(\/ \E f \in FileNames, id \in randomId : handleImport("ok", f, id)
        \/ \E id \in catalogIds, n \in RenameTexts : handleRename(id, n)
        \/ \E a \in alerts : DeleteConfirm(a)
        \/ \E k \in TRIGGERS, id \in randomId \cup {Null} : MappingChoice(k, id))
       => store' = [sounds |-> Doc("json", sounds'),
                    mappings |-> Doc("json", stringifyMappings(mappings'))]]_vars

\* C12: whatever the toggles of the simulation flag and the catalog, mapping
\* and playback changes between them, one interval is alive while the flag is
\* set and none while it is not, and a tick fires only while the flag is set.
C12_OneTimerWhileEnabled ==
    /\ [](timers = IF simulateBle THEN 1 ELSE 0)
    /\ [][\A k \in TRIGGERS : SimulationTick(k) => simulateBle]_vars

\* C12 witness: the simulation was switched on, a tick played "voice", and
\* the simulation was switched off again
C12_Witness ==
    /\ ~simulateBle
    /\ timers = 0
    /\ message = <<"Simulated", "voice">>

\* C13: an importSound that fails (picker cancelled, no file reference, the
\* copy throws, the copied file is not there) leaves the catalog, the mapping
\* and the files as they were, sets the failure's status message and raises
\* no unhandled error.
C13_FailedImportFrame ==
    [][\A o \in ImportOutcomes \ {"ok"}, f \in FileNames, id \in randomId :
          handleImport(o, f, id) =>
              /\ sounds' = sounds
              /\ mappings' = mappings
              /\ files' = files
              /\ message' = CASE o = "canceled" -> MsgCanceled
                               [] o = "empty" -> MsgPickerEmpty
                               [] o = "notFound" -> MsgNotCopied
                               [] OTHER -> MsgImportFailed
              /\ ~unhandled']_vars

\* C13 witness: with the stored catalog loaded, an import found no copied file
C13_Witness ==
    /\ isReady
    /\ message = MsgNotCopied
    /\ sounds = <<StoredClap, StoredVoice>>
    /\ mappings["b1-short"] = "X"

\* C14: after any imports, renames and deletes no two catalog entries share
\* an id.
C14_UniqueIds ==
    \A i, j \in 1..Len(sounds) : i # j => sounds[i].id # sounds[j].id

\* C15: a confirmed deleteSound(id) leaves the playback pointer, the ref, the
\* sound objects and the suspended audio calls as they were, also when id is
\* the sound that is playing or paused.
C15_DeleteLeavesPlayback ==
    [][\A a \in alerts :
          DeleteConfirm(a) =>
              UNCHANGED <<soundRef, currentId, playbackState, handles, tasks, unhandled>>]_vars

\* C15 witness: the playing sound was deleted: the pointer names an id that is
\* not in the catalog and the loaded sound object's file is gone
C15_Witness ==
    /\ currentId # Null
    /\ currentId \notin catalogIds
    /\ playbackState = "playing"
    /\ Loaded(soundRef)
    /\ handles[soundRef].uri \notin files

\* C16: in every reachable state the current sound id and the playback
\* status are both empty or both set.
C16_PointerPaired == (currentId = Null) <=> (playbackState = Null)

\* C17: no step taken while the load is pending writes a persisted document;
\* every write carries the catalog and the mapping of the state after the
\* load; and the load completes with what the documents held.
C17_NoWriteBeforeLoad ==
    [][/\ ~isReady' => store' = store
       /\ store' # store =>
             store' = [sounds |-> saveSounds(sounds'), mappings |-> saveMappings(mappings')]
       /\ LoadEffect =>
             /\ sounds' = loadSounds(store.sounds)
             /\ mappings' = loadMappings(store.mappings)]_vars

\* C17 witness: a sound was imported while the load was pending and the
\* stored catalog is untouched
C17_Witness ==
    /\ ~isReady
    /\ Len(sounds) > 0
    /\ store.sounds = Doc("json", <<StoredClap, StoredVoice>>)
====
